---------------------------- MODULE Spec2Model ----------------------------
(* Lane assignment of the commit graph view:                              *)
(* src/src/graphView/graphLaneAssigner.ts, assignLanes and getMaxLane.    *)
(*                                                                         *)
(* A pass of assignLanes is modelled step by step: one action per         *)
(* statement group of the loop body (resolve the lane, pass-through       *)
(* lines, first parent, each additional parent, push of the row).         *)
(* Lane indices are 0-based as in the source; the track `lanes` is a      *)
(* sequence, so slot i of the source is lanes[i + 1].                      *)
EXTENDS Integers, Sequences, FiniteSets

(* ------------------------------ bounds ------------------------------ *)
\* arbitrary (possibly malformed) inputs: commits, distinct hashes, parents
MaxCommits == 3
NumHashes == 3
MaxParents == 2
\* topologically ordered histories with unique hashes: number of commits
MaxHistory == 4
\* inputs of the repeated-call specification SpecCalls
MaxCallCommits == 2
CallHashes == 2
\* inputs of SpecWide: number of parents of the leading octopus merge
MaxOctopus == 11

(* ----------------------------- constants ---------------------------- *)
\* the free slot: `null` in lanes: (string | null)[]
null == 0

LANE_COLORS ==
    << "#f97583", "#79b8ff", "#85e89d", "#ffab70", "#b392f0",
       "#f692ce", "#73daca", "#ffd700", "#9ecbff", "#c8d6e5" >>

\* LANE_COLORS[lane % LANE_COLORS.length]
LaneColor(i) == LANE_COLORS[(i % Len(LANE_COLORS)) + 1]

(* ------------------------------ inputs ------------------------------ *)
SeqsUpTo(S, n) == UNION { [1..k -> S] : k \in 0..n }

\* GraphCommitInfo restricted to the two fields assignLanes reads
CommitRecords(H, np) == [hash : H, parentHashes : SeqsUpTo(H, np)]

RECURSIVE Flatten(_)
Flatten(c) ==
    IF c = <<>> THEN <<>>
    ELSE <<c[1].hash>> \o c[1].parentHashes \o Flatten(Tail(c))

\* Hashes are only ever compared with === (findLane), so a pass commutes
\* with any renaming of the hashes: inputs are enumerated up to renaming,
\* hashes numbered in the order of their first occurrence.
IsCanonical(f) ==
    \A i \in 1..Len(f) : f[i] \in {1} \cup { f[j] + 1 : j \in 1..(i - 1) }

\* any commit sequence: duplicate hashes, duplicate parents, self-parents,
\* parents listed before their children and dangling parents included
IsAnyInput(c, nc, nh, np) ==
    \E k \in 0..nc :
        /\ c \in [1..k -> CommitRecords(1..nh, np)]
        /\ IsCanonical(Flatten(c))

AnyInputs(nc, nh, np) ==
    { c \in SeqsUpTo(CommitRecords(1..nh, np), nc) : IsCanonical(Flatten(c)) }

\* sequences of distinct elements of S, of length <= n
RECURSIVE DistinctSeqs(_, _)
DistinctSeqs(S, n) ==
    IF n = 0 THEN { <<>> }
    ELSE { <<>> } \cup
         UNION { { <<x>> \o t : t \in DistinctSeqs(S \ {x}, n - 1) } : x \in S }

\* well-formed histories of n commits: commit i has hash i, its parents are
\* distinct hashes of later commits, or the hash n + 1 of no commit at all
RECURSIVE HistoriesFrom(_, _, _)
HistoriesFrom(i, n, np) ==
    IF i > n THEN { <<>> }
    ELSE { <<[hash |-> i, parentHashes |-> ps]>> \o rest :
             ps \in DistinctSeqs((i + 1)..(n + 1), np),
             rest \in HistoriesFrom(i + 1, n, np) }

Histories(nmax, np) == UNION { HistoriesFrom(1, n, np) : n \in 0..nmax }

\* the inputs of Spec: any small commit sequence, or a longer history
IsInput(c) ==
    \/ IsAnyInput(c, MaxCommits, NumHashes, MaxParents)
    \/ c \in Histories(MaxHistory, MaxParents)

CallInputs == AnyInputs(MaxCallCommits, CallHashes, MaxParents)

\* the inputs of SpecWide: an octopus merge of k parents (hashes 2..k+1),
\* alone or followed by one commit that is the first or the last of these
\* parents or a new branch tip, with up to two parents of its own
WideInputs ==
    UNION { { <<[hash |-> 1, parentHashes |-> [j \in 1..k |-> j + 1]]>> \o tail :
                tail \in { <<>> } \cup
                    { <<[hash |-> h, parentHashes |-> ps]>> :
                        h \in {2, k + 1, k + 2},
                        ps \in SeqsUpTo({2, k + 1, k + 3}, 2) } } :
            k \in 0..MaxOctopus }

(* --------------------------- the algorithm --------------------------- *)
\* slot i (0-based) of a track
Slot(l, i) == l[i + 1]

SetSlot(l, i, v) == [l EXCEPT ![i + 1] = v]

Min(S) == CHOOSE x \in S : \A y \in S : x <= y

\* variant: the scan starts at index 1 and never looks at slot 0
findLaneSkipFirst(l, hash) ==
    LET hit == { i \in 1..(Len(l) - 1) : Slot(l, i) = hash }
    IN  IF hit = {} THEN -1 ELSE Min(hit)

\* findLane: lowest index whose slot equals hash, or -1
findLane(l, hash) ==
    LET hit == { i \in 0..(Len(l) - 1) : Slot(l, i) = hash }
    IN  IF hit = {} THEN -1 ELSE Min(hit)

\* variant: the scan of lines 51-55 is missing, every request appends
findFreeLaneAppendOnly(l) == Len(l)

\* variant: the test of line 52 is inverted (lanes[i] !== null)
findFreeLaneInverted(l) ==
    LET taken == { i \in 0..(Len(l) - 1) : Slot(l, i) # null }
    IN  IF taken = {} THEN Len(l) ELSE Min(taken)

\* findFreeLane: lowest index whose slot is null, or lanes.length
findFreeLane(l) ==
    LET free == { i \in 0..(Len(l) - 1) : Slot(l, i) = null }
    IN  IF free = {} THEN Len(l) ELSE Min(free)

\* variant: the track is module-level state that outlives the call
SharedLaneTrack(previous) == previous

\* const lanes = [] : every call starts from its own empty track
NewLaneTrack(previous) == <<>>

\* variant: the commit's slot is removed from the track
\* (lanes.splice(lane, 1) instead of lanes[lane] = null at line 74)
ResolveLaneSplice(l, hash) ==
    LET found == findLane(l, hash)
        lane0 == IF found = -1 THEN findFreeLane(l) ELSE found
        grown == IF found = -1 /\ lane0 >= Len(l) THEN Append(l, null) ELSE l
    IN  [lane |-> lane0,
         lanes |-> [a \in 1..(Len(grown) - 1) |->
                       IF a <= lane0 THEN grown[a] ELSE grown[a + 1]]]

\* variant: line 74 (lanes[lane] = null) is missing
ResolveLaneNoClear(l, hash) ==
    LET found == findLane(l, hash)
        lane0 == IF found = -1 THEN findFreeLane(l) ELSE found
        grown == IF found = -1 /\ lane0 >= Len(l) THEN Append(l, null) ELSE l
    IN  [lane |-> lane0, lanes |-> grown]

\* lines 61-74: the commit's lane, and the track with that slot cleared
ResolveLane(l, hash) ==
    LET found == findLane(l, hash)
        lane0 == IF found = -1 THEN findFreeLane(l) ELSE found
        grown == IF found = -1 /\ lane0 >= Len(l) THEN Append(l, null) ELSE l
    IN  [lane |-> lane0, lanes |-> SetSlot(grown, lane0, null)]

Straight(i) ==
    [fromLane |-> i, toLane |-> i, color |-> LaneColor(i), type |-> "straight"]

\* variant: the null test of line 78 is missing
RECURSIVE PassThroughFromAllSlots(_, _, _)
PassThroughFromAllSlots(l, lane0, i) ==
    IF i >= Len(l) THEN <<>>
    ELSE (IF i # lane0 THEN <<Straight(i)>> ELSE <<>>)
         \o PassThroughFromAllSlots(l, lane0, i + 1)

\* variant: the pass-through line is drawn from the commit's lane
RECURSIVE PassThroughFromOwnLane(_, _, _)
PassThroughFromOwnLane(l, lane0, i) ==
    IF i >= Len(l) THEN <<>>
    ELSE (IF Slot(l, i) # null /\ i # lane0
          THEN <<[Straight(i) EXCEPT !.fromLane = lane0]>> ELSE <<>>)
         \o PassThroughFromOwnLane(l, lane0, i + 1)

\* lines 77-86: one straight line per occupied slot other than `lane`,
\* in ascending index order; built from index i upward
RECURSIVE PassThroughFrom(_, _, _)
PassThroughFrom(l, lane0, i) ==
    IF i >= Len(l) THEN <<>>
    ELSE (IF Slot(l, i) # null /\ i # lane0 THEN <<Straight(i)>> ELSE <<>>)
         \o PassThroughFrom(l, lane0, i + 1)

\* variant: the loop of line 77 runs from the last slot down to slot 0
PassThroughLinesDescending(l, lane0) ==
    LET up == PassThroughFrom(l, lane0, 0)
    IN  [a \in 1..Len(up) |-> up[Len(up) + 1 - a]]

PassThroughLines(l, lane0) == PassThroughFrom(l, lane0, 0)

\* variant: the comparison is reversed
MergeTypeReversed(from, to) == IF to > from THEN "merge-left" ELSE "merge-right"

MergeType(from, to) == IF to < from THEN "merge-left" ELSE "merge-right"

ForkType(from, to) == IF to < from THEN "fork-left" ELSE "fork-right"

\* variant: the merge branch keeps the commit's lane for the first parent
\* (lanes[lane] = firstParent instead of null at line 106)
WireFirstParentAlwaysClaim(l, lane0, firstParent) ==
    LET existingLane == findLane(l, firstParent)
    IN  IF existingLane # -1 /\ existingLane # lane0
        THEN [lanes |-> SetSlot(l, lane0, firstParent),
              line  |-> [fromLane |-> lane0, toLane |-> existingLane,
                         color |-> LaneColor(existingLane),
                         type |-> MergeType(lane0, existingLane)]]
        ELSE [lanes |-> SetSlot(l, lane0, firstParent),
              line  |-> [fromLane |-> lane0, toLane |-> lane0,
                         color |-> LaneColor(lane0), type |-> "straight"]]

\* variant: line 109 (lanes[lane] = firstParent) is missing
WireFirstParentNoClaim(l, lane0, firstParent) ==
    LET existingLane == findLane(l, firstParent)
    IN  IF existingLane # -1 /\ existingLane # lane0
        THEN [lanes |-> SetSlot(l, lane0, null),
              line  |-> [fromLane |-> lane0, toLane |-> existingLane,
                         color |-> LaneColor(existingLane),
                         type |-> MergeType(lane0, existingLane)]]
        ELSE [lanes |-> l,
              line  |-> [fromLane |-> lane0, toLane |-> lane0,
                         color |-> LaneColor(lane0), type |-> "straight"]]

\* lines 93-125: the first parent
WireFirstParent(l, lane0, firstParent) ==
    LET existingLane == findLane(l, firstParent)
    IN  IF existingLane # -1 /\ existingLane # lane0
        THEN [lanes |-> SetSlot(l, lane0, null),
              line  |-> [fromLane |-> lane0, toLane |-> existingLane,
                         color |-> LaneColor(existingLane),
                         type |-> MergeType(lane0, existingLane)]]
        ELSE IF existingLane = -1
        THEN [lanes |-> SetSlot(l, lane0, firstParent),
              line  |-> [fromLane |-> lane0, toLane |-> lane0,
                         color |-> LaneColor(lane0), type |-> "straight"]]
        ELSE [lanes |-> SetSlot(l, lane0, firstParent),
              line  |-> [fromLane |-> lane0, toLane |-> lane0,
                         color |-> LaneColor(lane0), type |-> "straight"]]

\* lines 133-140: an additional parent some slot already expects
MergeLine(lane0, parentLane) ==
    [fromLane |-> lane0, toLane |-> parentLane,
     color |-> LaneColor(parentLane), type |-> MergeType(lane0, parentLane)]

\* lines 143-147: the track after a free lane is claimed for parentHash
ForkLanes(l, parentHash) ==
    LET newLane == findFreeLane(l)
        grown == IF newLane >= Len(l) THEN Append(l, null) ELSE l
    IN  SetSlot(grown, newLane, parentHash)

\* variant: the fork line takes the commit's color (color instead of
\* forkColor at line 152)
ForkLineCommitColor(l, lane0) ==
    LET newLane == findFreeLane(l)
    IN  [fromLane |-> lane0, toLane |-> newLane,
         color |-> LaneColor(lane0), type |-> ForkType(lane0, newLane)]

\* lines 148-154
ForkLine(l, lane0) ==
    LET newLane == findFreeLane(l)
    IN  [fromLane |-> lane0, toLane |-> newLane,
         color |-> LaneColor(newLane), type |-> ForkType(lane0, newLane)]

Max2(a, b) == IF a > b THEN a ELSE b

\* variant: line 176 (the toLane comparison) is missing
RECURSIVE MaxOfLinesFromOnly(_, _)
MaxOfLinesFromOnly(ls, max) ==
    IF ls = <<>> THEN max
    ELSE MaxOfLinesFromOnly(Tail(ls), Max2(max, ls[1].fromLane))

\* lines 174-177
RECURSIVE MaxOfLines(_, _)
MaxOfLines(ls, max) ==
    IF ls = <<>> THEN max
    ELSE MaxOfLines(Tail(ls), Max2(Max2(max, ls[1].fromLane), ls[1].toLane))

RECURSIVE MaxFrom(_, _)
MaxFrom(rows, max) ==
    IF rows = <<>> THEN max
    ELSE MaxFrom(Tail(rows),
                 MaxOfLines(rows[1].laneData.lines,
                            Max2(max, rows[1].laneData.lane)))

\* variant: the scan starts from max = -1
getMaxLaneFromMinusOne(rows) == MaxFrom(rows, -1)

\* getMaxLane: a scan starting from max = 0
getMaxLane(rows) == MaxFrom(rows, 0)

(* ------------------------------- state ------------------------------- *)
VARIABLES
    commits,   \* the argument of the running call
    lanes,     \* lanes[i]: hash expected next in lane i, or null
    result,    \* the rows pushed so far
    pc,        \* position in the call
    ci,        \* 1-based position of `commit` in commits
    lane,      \* the loop body's `lane` (-1 outside a row)
    lines,     \* the loop body's `lines`
    p,         \* index into parents of the additional-parent loop
    maxLane,   \* getGraphData's maxLane (-1 before getMaxLane has run)
    earlier    \* SpecCalls: a completed getGraphData that is remembered, or <<>>

vars == <<commits, lanes, result, pc, ci, lane, lines, p, maxLane, earlier>>

commit == commits[ci]

parents == commit.parentHashes

\* lines 34-37: the head of the loop of a call
Entry ==
    /\ lanes = NewLaneTrack(<<>>)
    /\ result = <<>>
    /\ pc = "loop"
    /\ ci = 1
    /\ lane = -1
    /\ lines = <<>>
    /\ p = 0
    /\ maxLane = -1
    /\ earlier = <<>>

Init ==
    /\ IsInput(commits)
    /\ Entry

\* lines 60-74
Resolve ==
    /\ pc = "loop"
    /\ ci <= Len(commits)
    /\ LET r == ResolveLane(lanes, commit.hash)
       IN  /\ lane' = r.lane
           /\ lanes' = r.lanes
    /\ lines' = <<>>
    /\ pc' = "pass"
    /\ UNCHANGED <<commits, result, ci, p, maxLane, earlier>>

\* variant: a commit without parents leaves the loop body early
\* (if (parents.length === 0) continue;) and pushes no row
PassThroughSkipRoot ==
    /\ pc = "pass"
    /\ IF Len(parents) > 0
       THEN /\ lines' = lines \o PassThroughLines(lanes, lane)
            /\ pc' = "first"
            /\ UNCHANGED <<ci, lane>>
       ELSE /\ lines' = <<>>
            /\ pc' = "loop"
            /\ ci' = ci + 1
            /\ lane' = -1
    /\ UNCHANGED <<commits, lanes, result, p, maxLane, earlier>>

\* lines 77-91
PassThrough ==
    /\ pc = "pass"
    /\ lines' = lines \o PassThroughLines(lanes, lane)
    /\ pc' = IF Len(parents) > 0 THEN "first" ELSE "push"
    /\ UNCHANGED <<commits, lanes, result, ci, lane, p, maxLane, earlier>>

\* lines 93-125
FirstParent ==
    /\ pc = "first"
    /\ LET w == WireFirstParent(lanes, lane, parents[1])
       IN  /\ lanes' = w.lanes
           /\ lines' = Append(lines, w.line)
    /\ p' = 1
    /\ pc' = IF 1 < Len(parents) THEN "extra" ELSE "push"
    /\ UNCHANGED <<commits, result, ci, lane, maxLane, earlier>>

\* variant: an additional parent gets a lane of its own even when some
\* slot already expects it (the findLane test of line 132 is missing)
AdditionalParentForkExpected ==
    /\ pc = "extra"
    /\ findLane(lanes, parents[p + 1]) # -1
    /\ lanes' = ForkLanes(lanes, parents[p + 1])
    /\ lines' = Append(lines, ForkLine(lanes, lane))
    /\ p' = p + 1
    /\ pc' = IF p + 1 < Len(parents) THEN "extra" ELSE "push"
    /\ UNCHANGED <<commits, result, ci, lane, maxLane, earlier>>

\* variant: a parent hash listed before in the same commit is skipped
\* (no line for the repeated listing)
AdditionalParentMergeSkipRepeated ==
    /\ pc = "extra"
    /\ findLane(lanes, parents[p + 1]) # -1
    /\ lines' = IF \E j \in 1..p : parents[j] = parents[p + 1]
                THEN lines
                ELSE Append(lines, MergeLine(lane, findLane(lanes, parents[p + 1])))
    /\ p' = p + 1
    /\ pc' = IF p + 1 < Len(parents) THEN "extra" ELSE "push"
    /\ UNCHANGED <<commits, lanes, result, ci, lane, maxLane, earlier>>

\* lines 128-140
AdditionalParentMerge ==
    /\ pc = "extra"
    /\ findLane(lanes, parents[p + 1]) # -1
    /\ lines' = Append(lines, MergeLine(lane, findLane(lanes, parents[p + 1])))
    /\ p' = p + 1
    /\ pc' = IF p + 1 < Len(parents) THEN "extra" ELSE "push"
    /\ UNCHANGED <<commits, lanes, result, ci, lane, maxLane, earlier>>

\* lines 128-131, 141-155
AdditionalParentFork ==
    /\ pc = "extra"
    /\ findLane(lanes, parents[p + 1]) = -1
    /\ lanes' = ForkLanes(lanes, parents[p + 1])
    /\ lines' = Append(lines, ForkLine(lanes, lane))
    /\ p' = p + 1
    /\ pc' = IF p + 1 < Len(parents) THEN "extra" ELSE "push"
    /\ UNCHANGED <<commits, result, ci, lane, maxLane, earlier>>

\* lines 159-162, and the end of the loop body
PushRow ==
    /\ pc = "push"
    /\ result' = Append(result,
                    [commit |-> commit,
                     laneData |-> [lane |-> lane, color |-> LaneColor(lane),
                                   lines |-> lines]])
    /\ ci' = ci + 1
    /\ lane' = -1
    /\ lines' = <<>>
    /\ p' = 0
    /\ pc' = "loop"
    /\ UNCHANGED <<commits, lanes, maxLane, earlier>>

\* line 165
Return ==
    /\ pc = "loop"
    /\ ci > Len(commits)
    /\ pc' = "done"
    /\ UNCHANGED <<commits, lanes, result, ci, lane, lines, p, maxLane, earlier>>

\* graphDataProvider.ts line 27: const maxLane = getMaxLane(rows)
GetMaxLane ==
    /\ pc = "done"
    /\ maxLane' = getMaxLane(result)
    /\ pc' = "sized"
    /\ UNCHANGED <<commits, lanes, result, ci, lane, lines, p, earlier>>

Next ==
    \/ Resolve
    \/ PassThrough
    \/ FirstParent
    \/ AdditionalParentMerge
    \/ AdditionalParentFork
    \/ PushRow
    \/ Return
    \/ GetMaxLane

Spec == Init /\ [][Next]_vars

(* --------------------------- repeated calls --------------------------- *)
\* graphPanel.ts refresh -> getGraphData: a further assignLanes call, on any
\* input. One completed call may be remembered in `earlier`; `between` tells
\* whether another call completed after it.
Refresh ==
    /\ pc = "sized"
    /\ \E c \in CallInputs :
          /\ commits' = c
          /\ lanes' = NewLaneTrack(lanes)
    /\ result' = <<>>
    /\ pc' = "loop"
    /\ ci' = 1
    /\ maxLane' = -1
    /\ \/ /\ earlier = <<>>
          /\ earlier' \in { <<>>, [commits |-> commits, rows |-> result,
                                   maxLane |-> maxLane, between |-> FALSE] }
       \/ /\ earlier # <<>>
          /\ earlier' = [earlier EXCEPT !.between = TRUE]
    /\ UNCHANGED <<lane, lines, p>>

InitCalls ==
    /\ commits \in CallInputs
    /\ Entry

NextCalls == Next \/ Refresh

SpecCalls == InitCalls /\ [][NextCalls]_vars

(* ----------------------------- wide graphs ----------------------------- *)
\* passes on inputs that occupy more lanes than LANE_COLORS has entries
InitWide ==
    /\ commits \in WideInputs
    /\ Entry

SpecWide == InitWide /\ [][Next]_vars

(* ------------------------------- claims ------------------------------- *)
UniqueHashes(c) ==
    \A i, k \in 1..Len(c) : i # k => c[i].hash # c[k].hash

LinesOf(row) == row.laneData.lines

ParentsOf(row) == row.commit.parentHashes

\* a row's lines are its pass-through lines followed by one line per listed
\* parent: the number of pass-through lines, and the line of parent j
PassCount(row) == Len(LinesOf(row)) - Len(ParentsOf(row))

ParentLine(row, j) == LinesOf(row)[PassCount(row) + j]

Occupied(l) == { i \in 0..(Len(l) - 1) : Slot(l, i) # null }

HasDuplicateParent(c) ==
    \E a, b \in 1..Len(c.parentHashes) :
        a # b /\ c.parentHashes[a] = c.parentHashes[b]

HasSelfParent(c) ==
    \E a \in 1..Len(c.parentHashes) : c.parentHashes[a] = c.hash

\* C1: with unique commit hashes, the line a row emits for parent P ends in
\* the lane of P's own row, whenever P's row comes later.
C1_ParentLinkage ==
    UniqueHashes(commits) =>
        \A i, k \in 1..Len(result) :
            i < k =>
                \A j \in 1..Len(ParentsOf(result[i])) :
                    ParentsOf(result[i])[j] = result[k].commit.hash =>
                        ParentLine(result[i], j).toLane = result[k].laneData.lane

\* a finished pass on unique hashes in which one parent was reached by a
\* fork line and one by a merge line, both into a lane other than 0
C1_Witness ==
    /\ pc = "done"
    /\ UniqueHashes(commits)
    /\ \E t \in {"fork-right", "merge-right"} :
          \E i, k \in 1..Len(result) :
              /\ i < k
              /\ \E j \in 1..Len(ParentsOf(result[i])) :
                    /\ ParentsOf(result[i])[j] = result[k].commit.hash
                    /\ ParentLine(result[i], j).type = t
                    /\ result[k].laneData.lane > 0
    /\ \E i, k \in 1..Len(result) :
          /\ i < k
          /\ \E j \in 1..Len(ParentsOf(result[i])) :
                /\ ParentsOf(result[i])[j] = result[k].commit.hash
                /\ ParentLine(result[i], j).type = "merge-left"

\* C2: at every point of a pass no two slots of the track expect the same
\* hash.
C2_NoDuplicateExpectation ==
    \A i, j \in 0..(Len(lanes) - 1) :
        i # j /\ Slot(lanes, i) # null => Slot(lanes, i) # Slot(lanes, j)

\* the parents of a commit that lists one hash twice have just been wired,
\* and two slots are occupied
C2_Witness ==
    /\ pc = "push"
    /\ HasDuplicateParent(commit)
    /\ Cardinality(Occupied(lanes)) >= 2

\* C3 as stated: in every row no two lines have the same fromLane.
C3_DistinctFromLanes ==
    \A r \in 1..Len(result) :
        \A a, b \in 1..Len(LinesOf(result[r])) :
            a # b => LinesOf(result[r])[a].fromLane # LinesOf(result[r])[b].fromLane

\* C3 amended: two lines of a row share their fromLane only when both are
\* parent lines of the row's commit, which all start at the commit's lane;
\* pass-through lines start at pairwise different lanes, none of them the
\* commit's own.
C3_SharedFromLaneOnlyAtCommit ==
    \A r \in 1..Len(result) :
        \A a, b \in 1..Len(LinesOf(result[r])) :
            /\ a > PassCount(result[r]) =>
                  LinesOf(result[r])[a].fromLane = result[r].laneData.lane
            /\ a <= PassCount(result[r]) =>
                  LinesOf(result[r])[a].fromLane # result[r].laneData.lane
            /\ a < b /\ LinesOf(result[r])[a].fromLane = LinesOf(result[r])[b].fromLane
                  => a > PassCount(result[r])

\* a row of a merge commit that also has a pass-through line
C3_Witness ==
    \E r \in 1..Len(result) :
        /\ Len(ParentsOf(result[r])) >= 2
        /\ PassCount(result[r]) >= 1

\* the pass has returned one row per input commit, row i holding commit i
RowsPairInput ==
    /\ Len(result) = Len(commits)
    /\ \A i \in 1..Len(commits) : result[i].commit = commits[i]

\* position of the pass: the row, the statement group within the loop body,
\* the parent index of the additional-parent loop
PcRank ==
    CASE pc = "loop"  -> 0
      [] pc = "pass"  -> 1
      [] pc = "first" -> 2
      [] pc = "extra" -> 3
      [] pc = "push"  -> 4
      [] pc = "done"  -> 5
      [] pc = "sized" -> 6

Position == <<ci, PcRank, p>>

LexLess(a, b) ==
    \/ a[1] < b[1]
    \/ a[1] = b[1] /\ a[2] < b[2]
    \/ a[1] = b[1] /\ a[2] = b[2] /\ a[3] < b[3]

\* the positions of a pass are finitely many, and before the return some
\* step is always possible
PassInRange ==
    /\ ci \in 1..(Len(commits) + 1)
    /\ pc \in {"pass", "first", "extra", "push"} =>
          ci <= Len(commits) /\ p \in 0..Len(parents)
    /\ pc \in {"done", "sized"} => ci = Len(commits) + 1
    /\ pc \notin {"done", "sized"} => ENABLED Next

\* C4: every pass terminates without error (each step moves the position
\* strictly forward through a finite range, and no step before the return
\* is stuck) and returns one row per input commit, in input order, row i
\* paired with commit i.
C4_Total ==
    /\ [][LexLess(Position, Position')]_vars
    /\ [](PassInRange /\ (pc \in {"done", "sized"} => RowsPairInput))

\* a returned pass over an input with a self-parent, a duplicate parent, a
\* dangling parent and a parent listed before its child
C4_Witness ==
    /\ pc = "done"
    /\ RowsPairInput
    /\ \E i \in 1..Len(commits) : HasSelfParent(commits[i])
    /\ \E i \in 1..Len(commits) : HasDuplicateParent(commits[i])
    /\ \E i \in 1..Len(commits) : \E a \in 1..Len(commits[i].parentHashes) :
          \A k \in 1..Len(commits) : commits[k].hash # commits[i].parentHashes[a]
    /\ \E i, k \in 1..Len(commits) : \E a \in 1..Len(commits[i].parentHashes) :
          k < i /\ commits[k].hash = commits[i].parentHashes[a]

\* every lane index of some rows: the rows' lanes and the lines' endpoints
LaneIndices(rows) ==
    { rows[r].laneData.lane : r \in 1..Len(rows) }
    \cup UNION { UNION { { LinesOf(rows[r])[a].fromLane, LinesOf(rows[r])[a].toLane } :
                           a \in 1..Len(LinesOf(rows[r])) } : r \in 1..Len(rows) }

IsMaxOf(m, S) == IF S = {} THEN m = 0 ELSE m \in S /\ \A x \in S : x <= m

\* C5: getMaxLane is the maximum of all row lanes and line endpoints (0 when
\* there are none), so each of them lies in [0, getMaxLane(rows)].
C5_MaxLane ==
    /\ IsMaxOf(getMaxLane(result), LaneIndices(result))
    /\ pc = "sized" =>
          /\ IsMaxOf(maxLane, LaneIndices(result))
          /\ \A x \in LaneIndices(result) : 0 <= x /\ x <= maxLane

\* getMaxLane has run on rows whose largest index is the target of a line
\* and the lane of no row
C5_Witness ==
    /\ pc = "sized"
    /\ maxLane > 0
    /\ \A r \in 1..Len(result) : result[r].laneData.lane < maxLane

\* C6: the empty commit sequence gives the empty row sequence, and
\* getMaxLane of it is 0.
C6_Empty ==
    commits = <<>> =>
        /\ pc \in {"done", "sized"} => result = <<>>
        /\ pc = "sized" => maxLane = 0

C6_Witness == commits = <<>> /\ pc = "sized"

\* commit k's only parent is commit k + 1, the last commit has no parents
IsLinearChain(c) ==
    /\ Len(c) >= 1
    /\ \A k \in 1..(Len(c) - 1) : c[k].parentHashes = <<c[k + 1].hash>>
    /\ c[Len(c)].parentHashes = <<>>

\* C7: a linear chain puts every row at lane 0, gives every row but the last
\* exactly the straight line 0->0, the last row no line, and getMaxLane 0.
C7_LinearChain ==
    IsLinearChain(commits) /\ pc = "sized" =>
        /\ Len(result) = Len(commits)
        /\ \A r \in 1..Len(result) :
              /\ result[r].laneData.lane = 0
              /\ r < Len(result) =>
                    /\ Len(LinesOf(result[r])) = 1
                    /\ LinesOf(result[r])[1].type = "straight"
                    /\ LinesOf(result[r])[1].fromLane = 0
                    /\ LinesOf(result[r])[1].toLane = 0
              /\ r = Len(result) => LinesOf(result[r]) = <<>>
        /\ maxLane = 0

C7_Witness == IsLinearChain(commits) /\ Len(commits) >= 3 /\ pc = "sized"

\* scenario 3: M = 1, P1 = 2, P2 = 3, B = 4
Diamond ==
    << [hash |-> 1, parentHashes |-> <<2, 3>>],
       [hash |-> 2, parentHashes |-> <<4>>],
       [hash |-> 3, parentHashes |-> <<4>>],
       [hash |-> 4, parentHashes |-> <<>>] >>

Shape(ln) == <<ln.type, ln.fromLane, ln.toLane>>

RowShape(row) ==
    <<row.commit.hash, row.laneData.lane,
      [a \in 1..Len(LinesOf(row)) |-> Shape(LinesOf(row)[a])]>>

\* C8: the rows of the diamond, its getMaxLane and its final track.
C8_Diamond ==
    commits = Diamond /\ pc = "sized" =>
        /\ [r \in 1..Len(result) |-> RowShape(result[r])] =
              << <<1, 0, << <<"straight", 0, 0>>, <<"fork-right", 0, 1>> >> >>,
                 <<2, 0, << <<"straight", 1, 1>>, <<"straight", 0, 0>> >> >>,
                 <<3, 1, << <<"straight", 0, 0>>, <<"merge-left", 1, 0>> >> >>,
                 <<4, 0, << >> >> >>
        /\ maxLane = 1
        /\ lanes = <<null, null>>

C8_Witness == commits = Diamond /\ pc = "sized"

\* C9: a commit without parents emits only pass-through lines, none of them
\* from its own lane, and its slot is free after its row; a sequence of
\* parentless commits has every row at lane 0 without lines, getMaxLane 0.
C9_Parentless ==
    /\ \A r \in 1..Len(result) :
          ParentsOf(result[r]) = <<>> =>
              \A a \in 1..Len(LinesOf(result[r])) :
                  /\ LinesOf(result[r])[a].type = "straight"
                  /\ LinesOf(result[r])[a].fromLane = LinesOf(result[r])[a].toLane
                  /\ LinesOf(result[r])[a].fromLane # result[r].laneData.lane
    /\ pc = "loop" /\ ci > 1 /\ ParentsOf(result[ci - 1]) = <<>> =>
          Slot(lanes, result[ci - 1].laneData.lane) = null
    /\ pc = "sized" /\ (\A i \in 1..Len(commits) : commits[i].parentHashes = <<>>) =>
          /\ \A r \in 1..Len(result) :
                result[r].laneData.lane = 0 /\ LinesOf(result[r]) = <<>>
          /\ maxLane = 0

\* the row of a parentless commit that some slot expected, in a lane other
\* than 0 and with a pass-through line, has just been pushed
C9_Witness ==
    /\ pc = "loop"
    /\ ci > 1
    /\ ParentsOf(result[ci - 1]) = <<>>
    /\ result[ci - 1].laneData.lane > 0
    /\ LinesOf(result[ci - 1]) # <<>>

\* C10: a call returns the rows (and getMaxLane the value) that any earlier
\* call on the same commit sequence returned, whatever ran in between.
C10_Deterministic ==
    pc = "sized" /\ earlier # <<>> /\ earlier.commits = commits =>
        /\ result = earlier.rows
        /\ maxLane = earlier.maxLane

\* the second of two calls on one non-empty input has completed, another
\* call in between left expectations behind
C10_Witness ==
    /\ pc = "sized"
    /\ earlier # <<>>
    /\ earlier.commits = commits
    /\ earlier.between
    /\ Len(result) = MaxCallCommits
    /\ Occupied(lanes) # {}

\* the palette as the source lists it, indexed from 0
Palette(i) ==
    CASE i = 0 -> "#f97583" [] i = 1 -> "#79b8ff" [] i = 2 -> "#85e89d"
      [] i = 3 -> "#ffab70" [] i = 4 -> "#b392f0" [] i = 5 -> "#f692ce"
      [] i = 6 -> "#73daca" [] i = 7 -> "#ffd700" [] i = 8 -> "#9ecbff"
      [] i = 9 -> "#c8d6e5"

\* the rows pushed so far and the lines of the row in progress
AllLines ==
    UNION { { LinesOf(result[r])[a] : a \in 1..Len(LinesOf(result[r])) } :
              r \in 1..Len(result) }
    \cup { lines[a] : a \in 1..Len(lines) }

\* C11: the palette has exactly 10 entries, a row's color is the palette
\* entry of its lane mod 10 and a line's color that of its toLane mod 10, so
\* lanes 10 apart are colored alike.
C11_Colors ==
    /\ Len(LANE_COLORS) = 10
    /\ \A r \in 1..Len(result) :
          result[r].laneData.color = Palette(result[r].laneData.lane % 10)
    /\ \A ln \in AllLines : ln.color = Palette(ln.toLane % 10)
    /\ \A ln, lm \in AllLines :
          ln.toLane = lm.toLane + 10 => ln.color = lm.color

\* a finished pass with a fork line into lane 10 and one into lane 0, a
\* pass-through line, a merge line and a row in a lane beyond the palette
C11_Witness ==
    /\ pc = "sized"
    /\ \E ln, lm \in AllLines :
          /\ ln.toLane = 10 /\ ln.type = "fork-right"
          /\ lm.toLane = 0
    /\ \E ln \in AllLines : ln.type = "merge-left"
    /\ \E ln \in AllLines : ln.type = "straight" /\ ln.fromLane = 10
    /\ \E r \in 1..Len(result) : result[r].laneData.lane >= 10

\* the first n lines of ls are pass-through lines of a commit in lane own:
\* straight i->i, i # own, i strictly ascending
IsPassThroughPrefix(ls, n, own) ==
    /\ \A a \in 1..n :
          /\ ls[a].type = "straight"
          /\ ls[a].fromLane = ls[a].toLane
          /\ ls[a].fromLane # own
    /\ \A a, b \in 1..n : a < b => ls[a].fromLane < ls[b].fromLane

\* the number of parents of the commit in progress that are wired already
WiredParents ==
    IF pc = "extra" THEN p ELSE IF pc = "push" THEN Len(parents) ELSE 0

\* C12: the lines of a row are its pass-through lines in strictly ascending
\* lane order, then one line per listed parent, in the order of the listing:
\* the j-th line after the pass-through lines leaves the commit's lane and
\* ends in the slot that expects parent j.
C12_LineOrder ==
    /\ pc \in {"first", "extra", "push"} =>
          LET n == Len(lines) - WiredParents
          IN  /\ n >= 0
              /\ IsPassThroughPrefix(lines, n, lane)
              /\ \A j \in 1..WiredParents :
                    /\ lines[n + j].fromLane = lane
                    /\ Slot(lanes, lines[n + j].toLane) = parents[j]
    /\ \A r \in 1..Len(result) :
          /\ PassCount(result[r]) >= 0
          /\ IsPassThroughPrefix(LinesOf(result[r]), PassCount(result[r]),
                                 result[r].laneData.lane)
          /\ \A j \in 1..Len(ParentsOf(result[r])) :
                ParentLine(result[r], j).fromLane = result[r].laneData.lane

\* a row with two pass-through lines and two parent lines that end in
\* different lanes is complete
C12_Witness ==
    /\ pc = "push"
    /\ Len(parents) = 2
    /\ Len(lines) = 4
    /\ lines[3].toLane # lines[4].toLane

\* C13: when the commit's lane has been assigned it is an index of the
\* track, 0 <= lane < lanes.length, and that slot is free before any
\* pass-through line or parent line of the row exists.
C13_LaneInTrack ==
    /\ pc = "pass" =>
          /\ 0 <= lane
          /\ lane < Len(lanes)
          /\ Slot(lanes, lane) = null
          /\ lines = <<>>
    /\ pc \in {"first", "extra", "push"} => 0 <= lane /\ lane < Len(lanes)

\* the lane of a commit that an earlier row listed as a parent has just been
\* assigned, it is not lane 0 and another slot is occupied
C13_Witness ==
    /\ pc = "pass"
    /\ lane > 0
    /\ \E r \in 1..Len(result) :
          \E j \in 1..Len(ParentsOf(result[r])) :
              ParentsOf(result[r])[j] = commit.hash
    /\ Occupied(lanes) # {}

\* no commit after row r has hash h
NeverAfter(r, h) == \A k \in (r + 1)..Len(commits) : commits[k].hash # h

\* row k has a pass-through line for lane t
PassesThrough(row, t) ==
    \E a \in 1..PassCount(row) :
        /\ LinesOf(row)[a].type = "straight"
        /\ LinesOf(row)[a].fromLane = t
        /\ LinesOf(row)[a].toLane = t

\* a step keeps every expectation, except that the step resolving the lane
\* of a commit with hash h may end the expectation of h
ExpectationsKept ==
    \A i \in 0..(Len(lanes) - 1) :
        Slot(lanes, i) # null =>
            \/ Len(lanes') > i /\ Slot(lanes', i) = Slot(lanes, i)
            \/ pc = "loop" /\ ci <= Len(commits) /\ commit.hash = Slot(lanes, i)

\* at the end of the pass: a parent hash that no later commit carries is
\* still expected by the slot its line ended in, and every later row has a
\* pass-through line for that lane
DanglingAtEnd ==
    \A r \in 1..Len(result) :
        \A j \in 1..Len(ParentsOf(result[r])) :
            LET h == ParentsOf(result[r])[j]
                t == ParentLine(result[r], j).toLane
            IN  NeverAfter(r, h) =>
                    /\ Slot(lanes, t) = h
                    /\ \A k \in (r + 1)..Len(result) : PassesThrough(result[k], t)

\* C14: a slot that expects h keeps expecting h through every step until a
\* commit with hash h is processed; if none appears the slot expects h at
\* the end of the pass and every later row passes through that lane.
C14_DanglingPersist ==
    /\ [][ExpectationsKept]_vars
    /\ [](pc \in {"done", "sized"} => DanglingAtEnd)

\* a pass has ended with a slot other than 0 still expecting a parent that
\* was listed at least two rows before the last one
C14_Witness ==
    /\ pc = "done"
    /\ \E r \in 1..Len(result) :
          \E j \in 1..Len(ParentsOf(result[r])) :
              /\ r + 2 <= Len(result)
              /\ NeverAfter(r, ParentsOf(result[r])[j])
              /\ ParentLine(result[r], j).toLane > 0
              /\ Slot(lanes, ParentLine(result[r], j).toLane) = ParentsOf(result[r])[j]

\* lanes needed right now: the occupied slots, plus the commit being placed
\* while its own slot is still free
Needed ==
    Cardinality(Occupied(lanes)) + (IF pc \in {"pass", "first"} THEN 1 ELSE 0)

\* lanes a finished row needed: its pass-through lanes plus the commit when
\* it was placed, and the lanes its lines end in once it was wired
LanesNeeded(ls, n) ==
    Max2(n + 1, Cardinality({ ls[a].toLane : a \in 1..Len(ls) }))

RECURSIVE MaxNeededFrom(_, _)
MaxNeededFrom(rows, r) ==
    IF r > Len(rows) THEN 0
    ELSE Max2(LanesNeeded(LinesOf(rows[r]), PassCount(rows[r])),
              MaxNeededFrom(rows, r + 1))

\* the track grows by one slot at a time, only from a track without a free
\* slot, and the grown track is exactly as long as the lanes then needed
GrowsOnlyWhenFull ==
    Len(lanes') # Len(lanes) =>
        /\ Len(lanes') = Len(lanes) + 1
        /\ Occupied(lanes) = 0..(Len(lanes) - 1)
        /\ Needed' = Len(lanes')

\* C15: a slot is appended only when every existing slot holds an
\* expectation, and after any row the track is no longer than the largest
\* number of lanes needed at once by the rows so far (the rows' lines record
\* that number: at "first" the lines are the occupied slots other than the
\* commit's, at "push" the lanes the lines end in are the occupied slots).
C15_LaneMinimality ==
    /\ [][GrowsOnlyWhenFull]_vars
    /\ [](/\ pc = "first" => Len(lines) + 1 = Needed
          /\ pc = "push" =>
                Cardinality({ lines[a].toLane : a \in 1..Len(lines) }) = Needed
          /\ pc \in {"loop", "done", "sized"} =>
                Len(lanes) <= MaxNeededFrom(result, 1))

\* a pass ended with more rows than lanes, on a track of three slots that
\* is as long as the most lanes ever needed and has a free slot again
C15_Witness ==
    /\ pc = "done"
    /\ Len(lanes) = 3
    /\ Len(result) > Len(lanes)
    /\ Len(lanes) = MaxNeededFrom(result, 1)
    /\ \E i \in 0..(Len(lanes) - 1) : Slot(lanes, i) = null

\* the slots of the track that expect hash h
ExpectingSlots(h) == { i \in 0..(Len(lanes) - 1) : Slot(lanes, i) = h }

\* C16 as stated, in the case most favourable to it: once the parents of a
\* commit that lists one hash twice are wired, two slots expect that hash.
C16_TwoLanesForOneParent ==
    pc = "push" =>
        \A a, b \in 1..Len(parents) :
            a < b /\ parents[a] = parents[b] =>
                Cardinality(ExpectingSlots(parents[a])) >= 2

\* C16 amended: every listing of a parent gets its own line from the
\* commit's lane, but a repeated listing finds the slot the earlier listing
\* found or claimed and gets a merge line into it; exactly one slot expects
\* the repeated hash, and in no state do two slots expect the same hash.
C16_OneLanePerParentHash ==
    /\ \A h \in { Slot(lanes, i) : i \in 0..(Len(lanes) - 1) } \ {null} :
          Cardinality(ExpectingSlots(h)) = 1
    /\ pc = "push" =>
          /\ Cardinality({ a \in 1..Len(lines) : lines[a].fromLane = lane })
                = Len(parents)
          /\ \A a, b \in 1..Len(parents) :
                a < b /\ parents[a] = parents[b] =>
                    LET n == Len(lines) - Len(parents)
                    IN  /\ lines[n + b].toLane = lines[n + a].toLane
                        /\ lines[n + b].type \in {"merge-left", "merge-right"}
                        /\ ExpectingSlots(parents[a]) = {lines[n + a].toLane}

\* both listings of the one parent of a commit in a lane other than 0 have
\* been wired: two lines from the commit's lane end in the same slot
C16_Witness ==
    /\ pc = "push"
    /\ lane >= 1
    /\ Len(parents) = 2
    /\ parents[1] = parents[2]
    /\ Len(lines) >= 3
    /\ lines[Len(lines)].toLane = lines[Len(lines) - 1].toLane
    /\ lines[Len(lines)].fromLane = lane
    /\ lines[Len(lines) - 1].fromLane = lane

\* the step that resolves the lane of the commit at ci
IsResolveStep == pc = "loop" /\ pc' = "pass"

\* the lane the step chose: the slot that expected the commit if there was
\* one, else the smallest free index (every slot below it is occupied), the
\* track growing by one slot only when the choice is its old length
LaneResolved ==
    IF ExpectingSlots(commit.hash) # {}
    THEN /\ lane' \in ExpectingSlots(commit.hash)
         /\ \A i \in ExpectingSlots(commit.hash) : lane' <= i
         /\ Len(lanes') = Len(lanes)
    ELSE /\ 0 <= lane' /\ lane' <= Len(lanes)
         /\ \A i \in 0..(lane' - 1) : Slot(lanes, i) # null
         /\ lane' < Len(lanes) =>
               Slot(lanes, lane') = null /\ Len(lanes') = Len(lanes)
         /\ lane' = Len(lanes) => lanes' = Append(lanes, null)
         /\ lane' > 0 <=> (Len(lanes) > 0 /\ Slot(lanes, 0) # null)

\* C17: a commit some slot expects takes that slot's index; any other
\* commit takes the smallest free index, or the track length with one slot
\* appended when no slot is free, so it lands on lane k > 0 exactly when
\* slots 0..k-1 are occupied and k is the first index that is not.
C17_LaneResolution == [][IsResolveStep => LaneResolved]_vars

\* a commit that no earlier row lists as a parent has been given a lane
\* other than 0, a slot the track already had
C17_Witness ==
    /\ pc = "pass"
    /\ lane >= 1
    /\ Len(lanes) >= 3
    /\ lane < Len(lanes) - 1
    /\ \A r \in 1..Len(result) :
          \A j \in 1..Len(ParentsOf(result[r])) :
              ParentsOf(result[r])[j] # commit.hash

\* the step that emits the pass-through lines of the row
IsPassThroughStep == pc = "pass" /\ pc' \in {"first", "push"}

\* resolving the lane changes no slot but the commit's own: the other
\* occupied slots are those occupied at the start of the row
OthersKeptByResolve ==
    Occupied(lanes') \ {lane'} = Occupied(lanes) \ {lane'}

\* the lines the step emits: one straight i->i line for each occupied slot
\* other than the commit's lane, and no other line
OnePassThroughPerOccupied ==
    /\ lines = <<>>
    /\ Len(lines') = Cardinality(Occupied(lanes) \ {lane})
    /\ { lines'[a].fromLane : a \in 1..Len(lines') } = Occupied(lanes) \ {lane}
    /\ \A a \in 1..Len(lines') :
          /\ lines'[a].type = "straight"
          /\ lines'[a].toLane = lines'[a].fromLane

\* C18: the pass-through lines of a row are exactly one straight i->i line
\* per slot i that is occupied at the start of the row and is not the
\* commit's lane; a free slot and the commit's own lane get none.
C18_PassThroughExact ==
    [][/\ IsResolveStep => OthersKeptByResolve
       /\ IsPassThroughStep => OnePassThroughPerOccupied]_vars

\* pass-through lines have just been emitted on a track that also has a
\* free slot other than the commit's own, below an occupied one
C18_Witness ==
    /\ pc \in {"first", "push"}
    /\ Len(lines) >= 1
    /\ lines = PassThroughLines(lanes, lane)
    /\ \E i, k \in 0..(Len(lanes) - 1) :
          /\ i # lane
          /\ i < k
          /\ Slot(lanes, i) = null
          /\ Slot(lanes, k) # null

\* the step that wires the first parent
IsFirstParentStep == pc = "first" /\ pc' \in {"extra", "push"}

\* the slots other than the commit's lane that expect its first parent
ElsewhereSlots == ExpectingSlots(parents[1]) \ {lane}

\* the step appended one merge line from the commit's lane to slot i, left
\* the expectation of slot i alone and left the commit's slot free
MergedInto(i) ==
    /\ Len(lines') = Len(lines) + 1
    /\ \A a \in 1..Len(lines) : lines'[a] = lines[a]
    /\ lines'[Len(lines')].fromLane = lane
    /\ lines'[Len(lines')].toLane = i
    /\ lines'[Len(lines')].type =
          (IF i < lane THEN "merge-left" ELSE "merge-right")
    /\ lines'[Len(lines')].color = Palette(i % 10)
    /\ Len(lanes') = Len(lanes)
    /\ Slot(lanes', i) = parents[1]
    /\ Slot(lanes', lane) = null

\* the only parent of the commit was merged into another lane
OnlyParentMerged ==
    /\ pc = "push"
    /\ Len(parents) = 1
    /\ lines[Len(lines)].toLane # lane

\* C19: when a slot other than the commit's lane expects the first parent,
\* wiring it adds one merge line from the commit's lane to that slot
\* (merge-left towards a lower index, else merge-right), the slot keeps its
\* expectation and the commit's own slot is free; a commit with exactly one
\* parent leaves its own slot free in the track the row hands on.
C19_FirstParentElsewhere ==
    /\ [][/\ IsFirstParentStep /\ ElsewhereSlots # {} =>
                \E i \in ElsewhereSlots : MergedInto(i)
          /\ OnlyParentMerged => lanes' = lanes]_vars
    /\ [](OnlyParentMerged => Slot(lanes, lane) = null)

\* a commit in lane 2 with exactly one parent has been merged to the left
\* into the lane that expected the parent
C19_Witness ==
    /\ OnlyParentMerged
    /\ lane = 2
    /\ lines[Len(lines)].type = "merge-left"
    /\ Slot(lanes, lines[Len(lines)].toLane) = parents[1]

\* the step claimed the commit's own slot for the first parent, appended one
\* straight lane->lane line in the commit's color and changed nothing else
\* of the track
ClaimedOwnLane ==
    /\ lines' = Append(lines, [fromLane |-> lane, toLane |-> lane,
                               color |-> Palette(lane % 10),
                               type |-> "straight"])
    /\ Len(lanes') = Len(lanes)
    /\ Slot(lanes', lane) = parents[1]
    /\ \A i \in 0..(Len(lanes) - 1) :
          i # lane => Slot(lanes', i) = Slot(lanes, i)

\* C20: when no slot expects the first parent, wiring it sets the commit's
\* own slot to expect the first parent's hash and emits exactly one straight
\* lane->lane line; no other slot and not the track length changes.
C20_FirstParentClaim ==
    [][IsFirstParentStep /\ ExpectingSlots(parents[1]) = {} => ClaimedOwnLane]_vars

\* a commit in a lane other than 0 has kept its lane for its only parent,
\* next to another occupied slot and a free one
C20_Witness ==
    /\ pc = "push"
    /\ Len(parents) = 1
    /\ lane >= 1
    /\ Slot(lanes, lane) = parents[1]
    /\ lines[Len(lines)].type = "straight"
    /\ lines[Len(lines)].toLane = lane
    /\ Occupied(lanes) \ {lane} # {}
    /\ Occupied(lanes) # 0..(Len(lanes) - 1)

\* the step that wires the additional parent parents[p + 1]
IsAdditionalParentStep == pc = "extra" /\ p' = p + 1

\* the step appended one line from the commit's lane to slot i
AppendedLineTo(i) ==
    /\ Len(lines') = Len(lines) + 1
    /\ \A a \in 1..Len(lines) : lines'[a] = lines[a]
    /\ lines'[Len(lines')].fromLane = lane
    /\ lines'[Len(lines')].toLane = i

\* C21: when some slot already expects an additional parent, wiring it adds
\* one merge line from the commit's lane to that slot and leaves the track
\* as it was: same length, every slot with the same content.
C21_AdditionalParentMerge ==
    [][IsAdditionalParentStep /\ ExpectingSlots(parents[p + 1]) # {} =>
          /\ \E i \in ExpectingSlots(parents[p + 1]) :
                /\ AppendedLineTo(i)
                /\ lines'[Len(lines')].type =
                      (IF i < lane THEN "merge-left" ELSE "merge-right")
          /\ lanes' = lanes]_vars

\* the second parent of a commit has been merged to the left into a lane
\* that already expected it, while the first parent went to another lane
C21_Witness ==
    /\ pc = "push"
    /\ Len(parents) = 2
    /\ parents[1] # parents[2]
    /\ lines[Len(lines)].type = "merge-left"
    /\ lines[Len(lines)].toLane # lines[Len(lines) - 1].toLane
    /\ Slot(lanes, lines[Len(lines)].toLane) = parents[2]

\* index k is the lowest free slot of the track, or its length when no slot
\* is free
IsLowestFree(k) ==
    /\ 0 <= k /\ k <= Len(lanes)
    /\ \A i \in 0..(k - 1) : Slot(lanes, i) # null
    /\ k < Len(lanes) => Slot(lanes, k) = null

\* the step made slot k (appended when k is the old length) expect hash h
\* and changed no other slot
OnlySlotSet(k, h) ==
    /\ Len(lanes') = (IF k = Len(lanes) THEN Len(lanes) + 1 ELSE Len(lanes))
    /\ Slot(lanes', k) = h
    /\ \A i \in 0..(Len(lanes) - 1) : i # k => Slot(lanes', i) = Slot(lanes, i)

\* C22: when no slot expects an additional parent, the lowest free slot at
\* that moment (a newly appended slot when none is free) is set to expect
\* the parent, one fork line from the commit's lane to that slot is added
\* (fork-left towards a lower index, else fork-right, in the new lane's
\* color), and no other slot changes.
C22_AdditionalParentFork ==
    [][IsAdditionalParentStep /\ ExpectingSlots(parents[p + 1]) = {} =>
          \E k \in 0..Len(lanes) :
              /\ IsLowestFree(k)
              /\ OnlySlotSet(k, parents[p + 1])
              /\ AppendedLineTo(k)
              /\ lines'[Len(lines')].type =
                    (IF k < lane THEN "fork-left" ELSE "fork-right")
              /\ lines'[Len(lines')].color = Palette(k % 10)]_vars

\* the second parent of a commit has been given a free slot to the left of
\* the commit's lane, which the first parent kept
C22_Witness ==
    /\ pc = "push"
    /\ Len(parents) = 2
    /\ lines[Len(lines)].type = "fork-left"
    /\ lines[Len(lines)].toLane < lane
    /\ Slot(lanes, lines[Len(lines)].toLane) = parents[2]
    /\ Slot(lanes, lane) = parents[1]

IsMerge(ln) == ln.type \in {"merge-left", "merge-right"}

IsFork(ln) == ln.type \in {"fork-left", "fork-right"}

IsLeft(ln) == ln.type \in {"merge-left", "fork-left"}

IsRight(ln) == ln.type \in {"merge-right", "fork-right"}

\* the parent a wiring step is about, and the line the step appended
WiredParent == IF pc = "first" THEN parents[1] ELSE parents[p + 1]

NewLine == lines'[Len(lines')]

\* the line a wiring step appends is a merge line exactly when some slot
\* expected the parent before the step (and it ends in that slot), and a
\* fork line exactly when the step is an additional-parent step that found
\* no such slot and allocated one
KindByExpectation ==
    /\ Len(lines') = Len(lines) + 1
    /\ IsMerge(NewLine) <=> ExpectingSlots(WiredParent) # {}
    /\ IsMerge(NewLine) => NewLine.toLane \in ExpectingSlots(WiredParent)
    /\ IsFork(NewLine) <=>
          (IsAdditionalParentStep /\ ExpectingSlots(WiredParent) = {})
    /\ IsFork(NewLine) =>
          /\ Slot(lanes', NewLine.toLane) = WiredParent
          /\ NewLine.toLane < Len(lanes) => Slot(lanes, NewLine.toLane) = null

\* C23 as stated: a merge or fork line is '-left' exactly when
\* toLane < fromLane and '-right' exactly when toLane > fromLane.
C23_StrictDirection ==
    \A ln \in AllLines :
        IsMerge(ln) \/ IsFork(ln) =>
            /\ IsLeft(ln) <=> ln.toLane < ln.fromLane
            /\ IsRight(ln) <=> ln.toLane > ln.fromLane

\* C23 amended: a merge or fork line is '-left' exactly when
\* toLane < fromLane and '-right' exactly when toLane >= fromLane (a line
\* from the commit's lane to itself is '-right'); a line is a merge line iff
\* its target slot expected the parent before the parent was wired, and a
\* fork line iff its target slot was allocated for that parent.
C23_Direction ==
    /\ [](\A ln \in AllLines :
             IsMerge(ln) \/ IsFork(ln) =>
                 /\ IsLeft(ln) <=> ln.toLane < ln.fromLane
                 /\ IsRight(ln) <=> ln.toLane >= ln.fromLane)
    /\ [][IsFirstParentStep \/ IsAdditionalParentStep => KindByExpectation]_vars

\* the rows hold a merge-left line, a fork-right line to a higher lane and
\* a fork-right line from a lane to itself
C23_Witness ==
    /\ pc = "done"
    /\ \E ln \in AllLines : ln.type = "merge-left"
    /\ \E ln \in AllLines : ln.type = "fork-right" /\ ln.toLane > ln.fromLane
    /\ \E ln \in AllLines : ln.type = "fork-right" /\ ln.toLane = ln.fromLane

\* the hashes the input mentions
InputHashes ==
    UNION { {commits[k].hash} \cup
            { commits[k].parentHashes[j] : j \in 1..Len(commits[k].parentHashes) } :
            k \in 1..Len(commits) }

\* the indices at which lanes' differs from lanes, new slots included
ChangedSlots ==
    { i \in 0..(Len(lanes') - 1) :
          i >= Len(lanes) \/ Slot(lanes', i) # Slot(lanes, i) }

\* a step never shortens the track and rewrites at most one slot in place,
\* with a hash of the input or with free: no slot moves to another index
TrackStable ==
    /\ Len(lanes') >= Len(lanes)
    /\ Cardinality(ChangedSlots) <= 1
    /\ \A i \in ChangedSlots : Slot(lanes', i) \in InputHashes \cup {null}

\* C24: during a pass the track never shrinks and its slots are only set to
\* a hash or to free, in place; so the lane of every earlier row and the
\* lanes its lines end in are still indices of the track in every later row.
C24_TrackNeverShrinks ==
    /\ [][TrackStable]_vars
    /\ [](\A r \in 1..Len(result) :
             /\ result[r].laneData.lane < Len(lanes)
             /\ \A a \in 1..Len(LinesOf(result[r])) :
                   LinesOf(result[r])[a].toLane < Len(lanes))

\* the last slot of the track was freed two rows ago or earlier and the
\* track still has its three slots, the first of them occupied
C24_Witness ==
    /\ pc = "loop"
    /\ Len(lanes) = 3
    /\ Slot(lanes, 2) = null
    /\ Slot(lanes, 1) = null
    /\ Slot(lanes, 0) # null
    /\ Len(result) >= 3
    /\ result[Len(result)].laneData.lane = 0

\* the lanes in which the lines ls end
ToLanes(ls) == { ls[a].toLane : a \in 1..Len(ls) }

\* the lanes of a row's pass-through lines
PassLanes(row) == { LinesOf(row)[a].fromLane : a \in 1..PassCount(row) }

\* rows r and r + 1: every pass-through line of r + 1 continues a lane in
\* which a line of r ended, and the only lane of r that r + 1 does not pass
\* through is the one r + 1 places its commit on
Continues(r) ==
    LET T   == ToLanes(LinesOf(result[r]))
        P   == PassLanes(result[r + 1])
        own == result[r + 1].laneData.lane
    IN  /\ P \subseteq T
        /\ T \ P \subseteq {own}
        /\ own \notin P

\* resolving the lane takes the commit's lane out of the occupied slots
\* when a slot expected the commit, and takes nothing out otherwise
ResolveTakesOwnLane ==
    IF ExpectingSlots(commit.hash) # {}
    THEN /\ lane' \in Occupied(lanes)
         /\ Occupied(lanes') = Occupied(lanes) \ {lane'}
    ELSE /\ lane' \notin Occupied(lanes)
         /\ Occupied(lanes') = Occupied(lanes)

\* C25: the lanes in which the lines of a row end are exactly the slots
\* occupied after the row; the next row's pass-through lines run in exactly
\* those lanes, except the next commit's own lane when a slot expected that
\* commit (a commit nobody expected takes a lane in which no line ended).
C25_Continuity ==
    /\ [](/\ pc = "push" => ToLanes(lines) = Occupied(lanes)
          /\ pc \in {"loop", "done", "sized"} /\ Len(result) > 0 =>
                ToLanes(LinesOf(result[Len(result)])) = Occupied(lanes)
          /\ \A r \in 1..(Len(result) - 1) : Continues(r))
    /\ [][/\ IsResolveStep => ResolveTakesOwnLane
          /\ IsPassThroughStep =>
                ToLanes(lines') = Occupied(lanes) /\ lane \notin ToLanes(lines')]_vars

\* the rows hold a commit placed on a lane in which a line of the row
\* before ended, next to a pass-through line, and a commit nobody expected
\* placed beside the lanes of the row before
C25_Witness ==
    /\ pc = "done"
    /\ \E r \in 1..(Len(result) - 1) :
          /\ result[r + 1].laneData.lane \in ToLanes(LinesOf(result[r]))
          /\ PassLanes(result[r + 1]) # {}
    /\ \E r \in 1..(Len(result) - 1) :
          /\ result[r + 1].laneData.lane \notin ToLanes(LinesOf(result[r]))
          /\ ToLanes(LinesOf(result[r])) # {}

\* every listed parent is the hash of a commit later in the input
IsClosedHistory ==
    \A k \in 1..Len(commits) :
        \A j \in 1..Len(commits[k].parentHashes) :
            \E m \in (k + 1)..Len(commits) :
                commits[m].hash = commits[k].parentHashes[j]

\* no commit of the input lists a parent twice or lists itself as a parent
NoRepeatedOrSelfParent ==
    \A k \in 1..Len(commits) :
        ~HasDuplicateParent(commits[k]) /\ ~HasSelfParent(commits[k])

\* C26 as stated: on such inputs a line is straight iff fromLane = toLane.
C26_StraightIffSameLane ==
    NoRepeatedOrSelfParent =>
        \A ln \in AllLines : ln.type = "straight" <=> ln.fromLane = ln.toLane

\* the lines ls of a row whose first n lines are pass-through lines: a
\* straight line stays in its lane and a merge line changes lane; a fork
\* line changes lane too, unless the first parent was merged into another
\* lane, in which case one fork line, a fork-right, may end in the commit's
\* own lane
LaneChanges(ls, n) ==
    LET selfForks == { a \in 1..Len(ls) :
                          IsFork(ls[a]) /\ ls[a].fromLane = ls[a].toLane }
    IN  /\ \A a \in 1..Len(ls) :
              /\ ls[a].type = "straight" => ls[a].fromLane = ls[a].toLane
              /\ IsMerge(ls[a]) => ls[a].fromLane # ls[a].toLane
        /\ Cardinality(selfForks) <= 1
        /\ \A a \in selfForks :
              /\ ls[a].type = "fork-right"
              /\ a > n + 1
              /\ IsMerge(ls[n + 1])

\* C26 amended: on inputs without repeated or self parents every straight
\* line has fromLane = toLane and every merge line connects two different
\* lanes; a fork line connects two different lanes except that a commit
\* whose first parent was merged into another lane may fork one additional
\* parent into its own, just freed, lane (a fork-right from the lane to
\* itself).
C26_LaneChanges ==
    NoRepeatedOrSelfParent =>
        /\ \A r \in 1..Len(result) :
              LaneChanges(LinesOf(result[r]), PassCount(result[r]))
        /\ pc = "push" => LaneChanges(lines, Len(lines) - Len(parents))

\* a well-formed history (unique hashes, every parent a later commit, no
\* repeated or self parent) has produced a row whose first parent line is a merge-left and whose second
\* parent line is a fork-right from the commit's lane to itself
C26_Witness ==
    /\ pc = "done"
    /\ NoRepeatedOrSelfParent
    /\ UniqueHashes(commits)
    /\ IsClosedHistory
    /\ \E r \in 1..Len(result) :
          /\ Len(ParentsOf(result[r])) = 2
          /\ ParentLine(result[r], 1).type = "merge-left"
          /\ ParentLine(result[r], 2).type = "fork-right"
          /\ ParentLine(result[r], 2).toLane = result[r].laneData.lane

\* no commit of the input lists the same parent hash twice
NoRepeatedParent ==
    \A k \in 1..Len(commits) : ~HasDuplicateParent(commits[k])

\* the lines ls of a row whose first n lines are pass-through lines: a
\* merge line ends in a lane that has a pass-through line, a fork line in a
\* lane that has none
TargetsLiveOrFree(ls, n) ==
    LET pass == { ls[a].fromLane : a \in 1..n }
    IN  \A a \in (n + 1)..Len(ls) :
            /\ IsMerge(ls[a]) => ls[a].toLane \in pass
            /\ IsFork(ls[a]) => ls[a].toLane \notin pass

\* C27: on inputs without a repeated parent, in every row the lane a merge
\* line ends in also carries a pass-through line of that row, and the lane
\* a fork line ends in carries none.
C27_MergeLiveForkFree ==
    NoRepeatedParent =>
        /\ \A r \in 1..Len(result) :
              TargetsLiveOrFree(LinesOf(result[r]), PassCount(result[r]))
        /\ pc = "push" => TargetsLiveOrFree(lines, Len(lines) - Len(parents))

\* on such an input a row has a merge line into a passed-through lane and
\* a fork line, and another lane passes through the row as well
C27_Witness ==
    /\ pc = "done"
    /\ NoRepeatedParent
    /\ \E r \in 1..Len(result) :
          /\ Len(ParentsOf(result[r])) = 2
          /\ PassCount(result[r]) >= 2
          /\ IsMerge(ParentLine(result[r], 1))
          /\ ParentLine(result[r], 1).toLane \in PassLanes(result[r])
          /\ IsFork(ParentLine(result[r], 2))

\* the lanes the rows and the row under construction have used so far:
\* the rows' lanes, the lanes their lines end in, the current commit's lane
UsedLanes ==
    { result[r].laneData.lane : r \in 1..Len(result) }
    \cup UNION { ToLanes(LinesOf(result[r])) : r \in 1..Len(result) }
    \cup ToLanes(lines)
    \cup (IF pc \in {"pass", "first", "extra", "push"} THEN {lane} ELSE {})

\* the lanes lines start from
FromLanes ==
    UNION { { LinesOf(result[r])[a].fromLane : a \in 1..Len(LinesOf(result[r])) } :
              r \in 1..Len(result) }
    \cup { lines[a].fromLane : a \in 1..Len(lines) }

\* C28: every slot of the track is the lane of some row or the end of some
\* line, no row lane and no line endpoint lies outside the track, and so
\* for a non-empty input getMaxLane of the rows is the final track length
\* minus 1.
C28_MaxLaneIsTrackLength ==
    /\ UsedLanes = 0..(Len(lanes) - 1)
    /\ FromLanes \subseteq 0..(Len(lanes) - 1)
    /\ pc = "sized" /\ Len(commits) > 0 => maxLane = Len(lanes) - 1

\* the canvas was sized to lane 2 for a track of three slots whose last
\* slot no commit was placed on: only a line ends there
C28_Witness ==
    /\ pc = "sized"
    /\ Len(commits) > 0
    /\ maxLane = 2
    /\ Len(lanes) = 3
    /\ \A r \in 1..Len(result) : result[r].laneData.lane < 2

\* the slots occupied at the start of row r: none for the first row, else
\* the lanes in which the lines of row r - 1 ended
StartOccupied(r) ==
    IF r = 1 THEN {} ELSE ToLanes(LinesOf(result[r - 1]))

\* the number of lines a row must have
ExpectedLineCount(r, own, ps) ==
    Cardinality(StartOccupied(r) \ {own}) + Len(ps)

\* C29: a row has one line per slot that was occupied at the start of the
\* row and is not the commit's lane, plus one line per entry of the commit's
\* parentHashes, repeated entries included. (The slots occupied at the start
\* of a row are those the row before left occupied, which the first
\* conjunct ties to the track itself.)
C29_LineCount ==
    /\ pc = "loop" => Occupied(lanes) = StartOccupied(Len(result) + 1)
    /\ pc = "push" =>
          Len(lines) = ExpectedLineCount(Len(result) + 1, lane, parents)
    /\ \A r \in 1..Len(result) :
          Len(LinesOf(result[r])) =
              ExpectedLineCount(r, result[r].laneData.lane, ParentsOf(result[r]))

\* a row of a commit that lists one parent twice has three lines: one
\* pass-through line and one line per listing
C29_Witness ==
    /\ pc = "done"
    /\ \E r \in 2..Len(result) :
          /\ HasDuplicateParent(result[r].commit)
          /\ Len(ParentsOf(result[r])) = 2
          /\ Len(LinesOf(result[r])) = 3
          /\ Cardinality(StartOccupied(r) \ {result[r].laneData.lane}) = 1

\* the lanes in which a line for a parent ended whose hash no later commit
\* carries
DanglingLanes ==
    UNION { { ParentLine(result[r], j).toLane :
                j \in { j \in 1..Len(ParentsOf(result[r])) :
                          NeverAfter(r, ParentsOf(result[r])[j]) } } :
            r \in 1..Len(result) }

\* C30: processing a commit ends the expectation of its hash; so at the end
\* of a pass the occupied slots are exactly those in which a line ended for
\* a parent hash that no later commit carried, each still expecting that
\* hash, and on an input with unique hashes whose every listed parent is a
\* later commit every slot is free.
C30_AllResolved ==
    /\ [][IsResolveStep => ExpectingSlots(commit.hash)' = {}]_vars
    /\ [](pc \in {"done", "sized"} =>
             /\ Occupied(lanes) = DanglingLanes
             /\ DanglingAtEnd
             /\ UniqueHashes(commits) /\ IsClosedHistory => Occupied(lanes) = {})

\* the pass over a closed history of four commits with a merge commit has
\* ended on a track of at least two slots, all of them free
C30_Witness ==
    /\ pc = "done"
    /\ UniqueHashes(commits)
    /\ IsClosedHistory
    /\ Len(commits) = 4
    /\ \E k \in 1..Len(commits) : Len(commits[k].parentHashes) = 2
    /\ Len(lanes) >= 2
    /\ Occupied(lanes) = {}

=============================================================================
